---- MODULE Spec2Model ----
(***************************************************************************)
(* Model of producer.py: main() validates the command line arguments,      *)
(* creates the Kafka producer and runs produce_events(), the loop that     *)
(* generates an event, sends it, waits for the send's future, counts the   *)
(* success, sleeps and repeats, until max_events is reached, a             *)
(* KeyboardInterrupt arrives or an exception ends it; the finally block    *)
(* flushes and closes the producer.                                        *)
(*                                                                         *)
(* The Kafka client is not part of the repository: the broker resolves the *)
(* pending sends on its own (BrokerAck, BrokerNack, OrphanAck, OrphanNack),*)
(* and every call into the client either returns or raises.  SIGINT is     *)
(* delivered to the main thread between two steps (Interrupt).             *)
(***************************************************************************)
EXTENDS Integers, Sequences, FiniteSets, TLC

(* ---- bounds of the model ---- *)
MaxEventsArg == 2          \* largest value given to --max-events
MaxRate == 1               \* largest value given to --rate-min / --rate-max
MaxSignals == 1            \* number of SIGINTs delivered to the process
MaxSubmit == MaxEventsArg + 1   \* cap on the events the loop generates
MaxDraw == 6               \* draws of random.uniform taken next to each end, in thousandths

None == <<>>               \* argparse default=None
Some(n) == <<n>>

RateVals == (0 - 1) .. MaxRate
MaxEventsVals == {None} \cup {Some(n) : n \in (0 - 1) .. MaxEventsArg}

VARIABLES
  rate_min, rate_max, max_events,   \* args (main), parameters of produce_events
  pc,             \* position of the main thread
  event_count,    \* produce_events: event_count
  event,          \* produce_events: event (identity of the generated event, 0 = none)
  future,         \* the future of the current send: "none", "pending", "ok", "err"
  wait_time,      \* produce_events: wait_time
  producer,       \* the KafkaProducer: "none", "open", "closed"
  pending,        \* exception in flight while the finally block runs: "none", "kbi"
  ret,            \* value returned by main(): "unset", "None", "0", "1"
  exit_status,    \* status of the process, -1 while it runs
  orphans,        \* sends left unresolved in the client when the loop stopped waiting
  delivered,      \* events the broker has received
  \* ---- observation of the run ----
  generated, submitted, failed, records, sleeps,
  ctorCalls, flushCalls, closeCalls,
  errors,         \* which fatal failures happened: "ctor", "fatal", "flush", "close"
  sigPcs,         \* where SIGINT arrived: the LoopState, or "handler"
  deliveredAtSignal,  \* delivered, when the first SIGINT arrived
  reported,       \* count printed at line 82 or line 109, -1 = nothing
  stoppedByMax,   \* the loop left through the max_events break
  loopEntered,    \* produce_events was called
  timeouts,       \* waits of line 92 that ended in KafkaTimeoutError
  observed,       \* waits of line 92 that returned the metadata of a send
  lastSent,       \* the event of the latest send that returned a future, 0 = none
  \* ---- the content of an event (generate_event) ----
  ev,             \* the dict built by generate_event: event_type, amount in cents
  sent            \* the value handed to producer.send

vars == << rate_min, rate_max, max_events, pc, event_count, event, future,
           wait_time, producer, pending, ret, exit_status, orphans, delivered,
           generated, submitted, failed, records, sleeps, ctorCalls,
           flushCalls, closeCalls, errors, sigPcs, deliveredAtSignal,
           reported, stoppedByMax, loopEntered, timeouts, observed,
           lastSent, ev, sent >>

cfgVars == << rate_min, rate_max, max_events >>
genVars == << ev, sent >>
obsVars == << generated, submitted, failed, records, sleeps, ctorCalls,
              flushCalls, closeCalls, errors, sigPcs, deliveredAtSignal,
              reported, stoppedByMax, loopEntered, timeouts, observed,
              lastSent >>

(* ---- pure parts of the code ---- *)

\* Python truth value of max_events: None and 0 are false
Truthy(m) == Len(m) = 1 /\ m[1] # 0

\* line 81 with '>' in place of '>='
ReachedMax_Mut(m, c) == Truthy(m) /\ c > m[1]

\* line 81: if max_events and event_count >= max_events
ReachedMax(m, c) == Truthy(m) /\ c >= m[1]

\* lines 176-182 without the rate_min > rate_max test
ArgsValid_Mut(rmin, rmax) == ~(rmin < 0 \/ rmax < 0)

\* lines 176-182: the two validation tests of main
ArgsValid(rmin, rmax) == ~(rmin < 0 \/ rmax < 0) /\ ~(rmin > rmax)

\* line 202: exit(main()); exit(None) is status 0
ExitStatus(r) == IF r = "1" THEN 1 ELSE 0

\* the pc values inside the try block of produce_events (lines 80-106)
TryPcs == {"top", "generate", "send", "wait", "count", "sleep"}
\* the except clauses of produce_events (lines 108-111)
HandlerPcs == {"except_kbi", "except_exc"}
\* the finally block (lines 112-115)
FinallyPcs == {"flush", "flushing", "close"}

\* The states of section 4.3, read off the position of the main thread:
\* INIT up to the try statement, RUNNING inside it, DRAINING in the except
\* clauses and the finally block, CLOSED once close() has returned
LoopState ==
  IF pc \in {"validate", "create", "start"} THEN "INIT"
  ELSE IF pc \in TryPcs THEN "RUNNING"
  ELSE IF pc \in HandlerPcs \cup FinallyPcs THEN "DRAINING"
  ELSE IF producer = "closed" THEN "CLOSED"
  ELSE "ABORTED"

inflight == orphans + (IF future = "pending" THEN 1 ELSE 0)

(* ---- generate_event ---- *)

\* line 25
EVENT_TYPES == {"view", "add_to_cart", "purchase"}

\* line 35: the bounds given to random.uniform
AmountLo == 10
AmountHi == 100

\* random.uniform(0, 100) in place of random.uniform(10, 100)
DrawVals_Mut ==
  {k : k \in 0 .. MaxDraw} \cup {AmountHi * 1000 - k : k \in 0 .. MaxDraw}

\* line 35: the values random.uniform(10, 100) returns, in thousandths; the
\* model draws the ones next to the two ends of the interval
DrawVals ==
  {AmountLo * 1000 + k : k \in 0 .. MaxDraw} \cup
  {AmountHi * 1000 - k : k \in 0 .. MaxDraw}

\* line 35: round(x, 2) of x given in thousandths, in cents.  A float written
\* d.dd5 is not the exact midpoint, so it goes down or up with its binary value.
Round2(m) ==
  IF m % 10 = 5 THEN {m \div 10, m \div 10 + 1} ELSE {(m + 5) \div 10}

\* no event built yet
NoEvent == [event_type |-> "", amount |-> 0]

\* lines 28-37: generate_event (user_id, product and timestamp come from
\* Faker and the clock and carry no constraint)
GenerateEvent ==
  /\ \E t \in EVENT_TYPES, x \in DrawVals :
       \E a \in Round2(x) : ev' = [event_type |-> t, amount |-> a]
  /\ UNCHANGED << cfgVars, pc, event_count, event, future, wait_time,
                  producer, pending, ret, exit_status, orphans, delivered,
                  obsVars, sent >>

\* lines 86-90: the event handed to producer.send is the one generate_event
\* returned
SubmitEvent ==
  /\ ev # NoEvent
  /\ sent' = ev
  /\ UNCHANGED << cfgVars, pc, event_count, event, future, wait_time,
                  producer, pending, ret, exit_status, orphans, delivered,
                  obsVars, ev >>

Init ==
  /\ rate_min \in RateVals
  /\ rate_max \in RateVals
  /\ max_events \in MaxEventsVals
  /\ pc = "validate"
  /\ event_count = 0
  /\ event = 0
  /\ future = "none"
  /\ wait_time = 0
  /\ producer = "none"
  /\ pending = "none"
  /\ ret = "unset"
  /\ exit_status = 0 - 1
  /\ orphans = 0
  /\ delivered = 0
  /\ generated = 0 /\ submitted = 0 /\ failed = 0 /\ records = 0 /\ sleeps = 0
  /\ ctorCalls = 0 /\ flushCalls = 0 /\ closeCalls = 0
  /\ errors = {}
  /\ sigPcs = << >>
  /\ deliveredAtSignal = 0
  /\ reported = 0 - 1
  /\ stoppedByMax = FALSE
  /\ loopEntered = FALSE
  /\ timeouts = 0
  /\ observed = 0
  /\ lastSent = 0
  /\ ev = NoEvent
  /\ sent = NoEvent

GenNext == GenerateEvent \/ SubmitEvent

\* generate_event and the hand-over to send, on their own
GenSpec == Init /\ [][GenNext]_vars

(* ---- main ---- *)

\* lines 175-182
Validate ==
  /\ pc = "validate"
  /\ IF ArgsValid(rate_min, rate_max)
       THEN pc' = "create" /\ ret' = ret
       ELSE pc' = "exit" /\ ret' = "None"
  /\ UNCHANGED << cfgVars, genVars, event_count, event, future, wait_time, producer,
                  pending, exit_status, orphans, delivered, obsVars >>

\* lines 40-55 as if the except clause of line 53 did not re-raise
CreateProducer_Mut ==
  /\ pc = "create"
  /\ ctorCalls' = ctorCalls + 1
  /\ \/ /\ producer' = "open"
        /\ pc' = "start"
        /\ errors' = errors
     \/ /\ producer' = producer
        /\ pc' = "start"
        /\ errors' = errors \cup {"ctor"}
  /\ UNCHANGED << cfgVars, genVars, event_count, event, future, wait_time, pending,
                  ret, exit_status, orphans, delivered, generated, submitted,
                  failed, records, sleeps, flushCalls, closeCalls, sigPcs,
                  deliveredAtSignal, reported, stoppedByMax,
                  loopEntered,
                  timeouts, observed, lastSent >>

\* line 186, lines 40-55: the constructor returns or raises KafkaError, which
\* create_producer re-raises and main catches
CreateProducer ==
  /\ pc = "create"
  /\ ctorCalls' = ctorCalls + 1
  /\ \/ /\ producer' = "open"
        /\ pc' = "start"
        /\ errors' = errors
     \/ /\ producer' = producer
        /\ pc' = "main_except"
        /\ errors' = errors \cup {"ctor"}
  /\ UNCHANGED << cfgVars, genVars, event_count, event, future, wait_time, pending,
                  ret, exit_status, orphans, delivered, generated, submitted,
                  failed, records, sleeps, flushCalls, closeCalls, sigPcs,
                  deliveredAtSignal, reported, stoppedByMax,
                  loopEntered,
                  timeouts, observed, lastSent >>

\* lines 194-196
MainExcept ==
  /\ pc = "main_except"
  /\ ret' = "1"
  /\ pc' = "exit"
  /\ UNCHANGED << cfgVars, genVars, event_count, event, future, wait_time, producer,
                  pending, exit_status, orphans, delivered, obsVars >>

\* line 198
MainReturn ==
  /\ pc = "return0"
  /\ ret' = "0"
  /\ pc' = "exit"
  /\ UNCHANGED << cfgVars, genVars, event_count, event, future, wait_time, producer,
                  pending, exit_status, orphans, delivered, obsVars >>

\* line 202
Exit ==
  /\ pc = "exit"
  /\ exit_status' = ExitStatus(ret)
  /\ pc' = "exited"
  /\ UNCHANGED << cfgVars, genVars, event_count, event, future, wait_time, producer,
                  pending, ret, orphans, delivered, obsVars >>

(* ---- produce_events ---- *)

\* lines 69-79
StartLoop ==
  /\ pc = "start"
  /\ event_count' = 0
  /\ loopEntered' = TRUE
  /\ pc' = "top"
  /\ UNCHANGED << cfgVars, genVars, event, future, wait_time, producer, pending, ret,
                  exit_status, orphans, delivered, generated, submitted,
                  failed, records, sleeps, ctorCalls, flushCalls, closeCalls,
                  errors, sigPcs, deliveredAtSignal, reported, stoppedByMax,
                  timeouts, observed, lastSent >>

\* lines 80-83
CheckMax ==
  /\ pc = "top"
  /\ IF ReachedMax(max_events, event_count)
       THEN pc' = "flush" /\ stoppedByMax' = TRUE /\ reported' = event_count
       ELSE pc' = "generate" /\ UNCHANGED << stoppedByMax, reported >>
  /\ UNCHANGED << cfgVars, genVars, event_count, event, future, wait_time, producer,
                  pending, ret, exit_status, orphans, delivered, generated,
                  submitted, failed, records, sleeps, ctorCalls, flushCalls,
                  closeCalls, errors, sigPcs, deliveredAtSignal, loopEntered,
                  timeouts, observed, lastSent >>

\* line 86 as if the event of the previous iteration were kept and sent again
Generate_Mut ==
  /\ pc = "generate"
  /\ generated < MaxSubmit
  /\ generated' = generated + 1
  /\ event' = IF event = 0 THEN generated + 1 ELSE event
  /\ pc' = "send"
  /\ UNCHANGED << cfgVars, genVars, event_count, future, wait_time, producer, pending,
                  ret, exit_status, orphans, delivered, submitted, failed,
                  records, sleeps, ctorCalls, flushCalls, closeCalls, errors,
                  sigPcs, deliveredAtSignal, reported, stoppedByMax,
                  loopEntered,
                  timeouts, observed, lastSent >>

\* line 86
Generate ==
  /\ pc = "generate"
  /\ generated < MaxSubmit
  /\ generated' = generated + 1
  /\ event' = generated + 1
  /\ pc' = "send"
  /\ UNCHANGED << cfgVars, genVars, event_count, future, wait_time, producer, pending,
                  ret, exit_status, orphans, delivered, submitted, failed,
                  records, sleeps, ctorCalls, flushCalls, closeCalls, errors,
                  sigPcs, deliveredAtSignal, reported, stoppedByMax,
                  loopEntered,
                  timeouts, observed, lastSent >>

\* line 90 without the wait of line 92: the loop goes on to the pacing delay
\* while the send is unresolved
Send_Mut ==
  /\ pc = "send"
  /\ \/ /\ future' = "pending"
        /\ submitted' = submitted + 1
        /\ lastSent' = event
        /\ pc' = "sleep"
        /\ UNCHANGED << failed, errors >>
     \/ /\ failed' = failed + 1
        /\ pc' = "sleep"
        /\ UNCHANGED << future, submitted, errors, lastSent >>
     \/ /\ errors' = errors \cup {"fatal"}
        /\ pc' = "except_exc"
        /\ UNCHANGED << future, submitted, failed, lastSent >>
  /\ UNCHANGED << cfgVars, genVars, event_count, event, wait_time, producer, pending,
                  ret, exit_status, orphans, delivered, generated, records,
                  sleeps, ctorCalls, flushCalls, closeCalls, sigPcs,
                  deliveredAtSignal, reported, stoppedByMax,
                  loopEntered,
                  timeouts, observed >>

\* line 90: send returns a future, raises KafkaError (caught at line 101) or
\* raises another exception (caught at line 110)
Send ==
  /\ pc = "send"
  /\ \/ /\ future' = "pending"
        /\ submitted' = submitted + 1
        /\ lastSent' = event
        /\ pc' = "wait"
        /\ UNCHANGED << failed, errors >>
     \/ /\ failed' = failed + 1
        /\ pc' = "sleep"
        /\ UNCHANGED << future, submitted, errors, lastSent >>
     \/ /\ errors' = errors \cup {"fatal"}
        /\ pc' = "except_exc"
        /\ UNCHANGED << future, submitted, failed, lastSent >>
  /\ UNCHANGED << cfgVars, genVars, event_count, event, wait_time, producer, pending,
                  ret, exit_status, orphans, delivered, generated, records,
                  sleeps, ctorCalls, flushCalls, closeCalls, sigPcs,
                  deliveredAtSignal, reported, stoppedByMax,
                  loopEntered,
                  timeouts, observed >>

\* line 92 as if line 101 did not catch the KafkaError of a failed send: it
\* goes on to the handler of line 110
FutureGet_Mut ==
  /\ pc = "wait"
  /\ \/ /\ future = "ok"
        /\ observed' = observed + 1
        /\ pc' = "count"
        /\ UNCHANGED << future, failed, orphans, timeouts >>
     \/ /\ future = "err"
        /\ future' = "none"
        /\ failed' = failed + 1
        /\ pc' = "except_exc"
        /\ UNCHANGED << orphans, timeouts, observed >>
     \/ /\ future = "pending"
        /\ future' = "none"
        /\ orphans' = orphans + 1
        /\ timeouts' = timeouts + 1
        /\ failed' = failed + 1
        /\ pc' = "except_exc"
        /\ UNCHANGED observed
  /\ UNCHANGED << cfgVars, genVars, event_count, event, wait_time, producer, pending,
                  ret, exit_status, delivered, generated, submitted, records,
                  sleeps, ctorCalls, flushCalls, closeCalls, errors, sigPcs,
                  deliveredAtSignal, reported, stoppedByMax,
                  loopEntered,
                  lastSent >>

\* line 92 as if a send that failed went on to line 94 and were counted
FutureGet_Counts ==
  /\ pc = "wait"
  /\ \/ /\ future = "ok"
        /\ observed' = observed + 1
        /\ pc' = "count"
        /\ UNCHANGED << future, failed, orphans, timeouts >>
     \/ /\ future = "err"
        /\ future' = "none"
        /\ failed' = failed + 1
        /\ pc' = "count"
        /\ UNCHANGED << orphans, timeouts, observed >>
     \/ /\ future = "pending"
        /\ future' = "none"
        /\ orphans' = orphans + 1
        /\ timeouts' = timeouts + 1
        /\ failed' = failed + 1
        /\ pc' = "sleep"
        /\ UNCHANGED observed
  /\ UNCHANGED << cfgVars, genVars, event_count, event, wait_time, producer, pending,
                  ret, exit_status, delivered, generated, submitted, records,
                  sleeps, ctorCalls, flushCalls, closeCalls, errors, sigPcs,
                  deliveredAtSignal, reported, stoppedByMax,
                  loopEntered,
                  lastSent >>

\* line 92 and lines 101-102: future.get(timeout=10) returns the metadata,
\* raises the send's KafkaError, or raises KafkaTimeoutError while the send
\* is still unresolved in the client
FutureGet ==
  /\ pc = "wait"
  /\ \/ /\ future = "ok"
        /\ observed' = observed + 1
        /\ pc' = "count"
        /\ UNCHANGED << future, failed, orphans, timeouts >>
     \/ /\ future = "err"
        /\ future' = "none"
        /\ failed' = failed + 1
        /\ pc' = "sleep"
        /\ UNCHANGED << orphans, timeouts, observed >>
     \/ /\ future = "pending"
        /\ future' = "none"
        /\ orphans' = orphans + 1
        /\ timeouts' = timeouts + 1
        /\ failed' = failed + 1
        /\ pc' = "sleep"
        /\ UNCHANGED observed
  /\ UNCHANGED << cfgVars, genVars, event_count, event, wait_time, producer, pending,
                  ret, exit_status, delivered, generated, submitted, records,
                  sleeps, ctorCalls, flushCalls, closeCalls, errors, sigPcs,
                  deliveredAtSignal, reported, stoppedByMax,
                  loopEntered,
                  lastSent >>

\* lines 94-99 as if the max_events test followed the increment, before the
\* pacing delay
Count_Mut ==
  /\ pc = "count"
  /\ event_count' = event_count + 1
  /\ records' = records + 1
  /\ future' = "none"
  /\ IF ReachedMax(max_events, event_count + 1)
       THEN pc' = "flush" /\ stoppedByMax' = TRUE /\ reported' = event_count + 1
       ELSE pc' = "sleep" /\ UNCHANGED << stoppedByMax, reported >>
  /\ UNCHANGED << cfgVars, genVars, event, wait_time, producer, pending, ret,
                  exit_status, orphans, delivered, generated, submitted,
                  failed, sleeps, ctorCalls, flushCalls, closeCalls, errors,
                  sigPcs, deliveredAtSignal, loopEntered,
                  timeouts, observed, lastSent >>

\* lines 94-99
Count ==
  /\ pc = "count"
  /\ event_count' = event_count + 1
  /\ records' = records + 1
  /\ future' = "none"
  /\ pc' = "sleep"
  /\ UNCHANGED << cfgVars, genVars, event, wait_time, producer, pending, ret,
                  exit_status, orphans, delivered, generated, submitted,
                  failed, sleeps, ctorCalls, flushCalls, closeCalls, errors,
                  sigPcs, deliveredAtSignal, reported, stoppedByMax,
                  loopEntered,
                  timeouts, observed, lastSent >>

\* lines 105-106
Sleep ==
  /\ pc = "sleep"
  /\ wait_time' \in rate_min .. rate_max
  /\ sleeps' = sleeps + 1
  /\ pc' = "top"
  /\ UNCHANGED << cfgVars, genVars, event_count, event, future, producer, pending, ret,
                  exit_status, orphans, delivered, generated, submitted,
                  failed, records, ctorCalls, flushCalls, closeCalls, errors,
                  sigPcs, deliveredAtSignal, reported, stoppedByMax,
                  loopEntered,
                  timeouts, observed, lastSent >>

\* lines 108-109 as if the handler resumed the loop
ExceptKbi_Mut ==
  /\ pc = "except_kbi"
  /\ reported' = event_count
  /\ pc' = "top"
  /\ UNCHANGED << cfgVars, genVars, event_count, event, future, wait_time, producer,
                  pending, ret, exit_status, orphans, delivered, generated,
                  submitted, failed, records, sleeps, ctorCalls, flushCalls,
                  closeCalls, errors, sigPcs, deliveredAtSignal, stoppedByMax,
                  loopEntered,
                  timeouts, observed, lastSent >>

\* lines 108-109
ExceptKbi ==
  /\ pc = "except_kbi"
  /\ reported' = event_count
  /\ pc' = "flush"
  /\ UNCHANGED << cfgVars, genVars, event_count, event, future, wait_time, producer,
                  pending, ret, exit_status, orphans, delivered, generated,
                  submitted, failed, records, sleeps, ctorCalls, flushCalls,
                  closeCalls, errors, sigPcs, deliveredAtSignal, stoppedByMax,
                  loopEntered,
                  timeouts, observed, lastSent >>

\* lines 110-111
ExceptExc ==
  /\ pc = "except_exc"
  /\ pc' = "flush"
  /\ UNCHANGED << cfgVars, genVars, event_count, event, future, wait_time, producer,
                  pending, ret, exit_status, orphans, delivered, obsVars >>

\* line 113: the call of flush()
FlushCall ==
  /\ pc = "flush"
  /\ flushCalls' = flushCalls + 1
  /\ pc' = "flushing"
  /\ UNCHANGED << cfgVars, genVars, event_count, event, future, wait_time, producer,
                  pending, ret, exit_status, orphans, delivered, generated,
                  submitted, failed, records, sleeps, ctorCalls, closeCalls,
                  errors, sigPcs, deliveredAtSignal, reported, stoppedByMax,
                  loopEntered,
                  timeouts, observed, lastSent >>

\* line 113: flush() returns once every submitted send has resolved
FlushReturn ==
  /\ pc = "flushing"
  /\ inflight = 0
  /\ pc' = "close"
  /\ UNCHANGED << cfgVars, genVars, event_count, event, future, wait_time, producer,
                  pending, ret, exit_status, orphans, delivered, obsVars >>

\* line 113: flush() raises; the rest of the finally block is skipped and the
\* exception reaches main (line 194)
FlushRaise ==
  /\ pc = "flushing"
  /\ errors' = errors \cup {"flush"}
  /\ pending' = "none"
  /\ pc' = "main_except"
  /\ UNCHANGED << cfgVars, genVars, event_count, event, future, wait_time, producer,
                  ret, exit_status, orphans, delivered, generated, submitted,
                  failed, records, sleeps, ctorCalls, flushCalls, closeCalls,
                  sigPcs, deliveredAtSignal, reported, stoppedByMax,
                  loopEntered,
                  timeouts, observed, lastSent >>

\* lines 114-115: close() returns, and the finally block ends: produce_events
\* returns, or the exception in flight goes on to the top level; or close()
\* raises and the exception reaches main
Close ==
  /\ pc = "close"
  /\ closeCalls' = closeCalls + 1
  /\ \/ /\ producer' = "closed"
        /\ IF pending = "kbi"
             THEN pc' = "exited" /\ exit_status' = 130
             ELSE pc' = "return0" /\ exit_status' = exit_status
        /\ UNCHANGED << errors, pending >>
     \/ /\ errors' = errors \cup {"close"}
        /\ pending' = "none"
        /\ pc' = "main_except"
        /\ UNCHANGED << producer, exit_status >>
  /\ UNCHANGED << cfgVars, genVars, event_count, event, future, wait_time, ret,
                  orphans, delivered, generated, submitted, failed, records,
                  sleeps, ctorCalls, flushCalls, sigPcs, deliveredAtSignal,
                  reported, stoppedByMax, loopEntered,
                  timeouts, observed, lastSent >>

(* ---- the environment ---- *)

\* SIGINT: KeyboardInterrupt is raised in the main thread where it stands.
\* Inside the try block it is caught at line 108; inside an except clause the
\* finally block still runs and the exception goes on; anywhere else nothing
\* catches it (main catches Exception only) and the interpreter dies of it.
Interrupt ==
  /\ pc # "exited"
  /\ Len(sigPcs) < MaxSignals
  /\ sigPcs' = Append(sigPcs, IF pc \in HandlerPcs THEN "handler" ELSE LoopState)
  /\ deliveredAtSignal' = IF sigPcs = << >> THEN delivered ELSE deliveredAtSignal
  /\ IF pc \in TryPcs
       THEN /\ pc' = "except_kbi"
            /\ future' = "none"
            /\ orphans' = inflight
            /\ UNCHANGED << pending, exit_status >>
       ELSE IF pc \in HandlerPcs
         THEN /\ pc' = "flush"
              /\ pending' = "kbi"
              /\ UNCHANGED << future, orphans, exit_status >>
         ELSE /\ pc' = "exited"
              /\ exit_status' = 130
              /\ UNCHANGED << future, orphans, pending >>
  /\ UNCHANGED << cfgVars, genVars, event_count, event, wait_time, producer, ret,
                  delivered, generated, submitted, failed, records, sleeps,
                  ctorCalls, flushCalls, closeCalls, errors, reported,
                  stoppedByMax,
                  loopEntered,
                  timeouts, observed, lastSent >>

\* the broker acknowledges the send the loop is waiting for
BrokerAck ==
  /\ future = "pending"
  /\ future' = "ok"
  /\ delivered' = delivered + 1
  /\ UNCHANGED << cfgVars, genVars, pc, event_count, event, wait_time, producer,
                  pending, ret, exit_status, orphans, obsVars >>

\* the send the loop is waiting for fails for good
BrokerNack ==
  /\ future = "pending"
  /\ future' = "err"
  /\ UNCHANGED << cfgVars, genVars, pc, event_count, event, wait_time, producer,
                  pending, ret, exit_status, orphans, delivered, obsVars >>

\* a send the loop no longer waits for is delivered by the client
OrphanAck ==
  /\ orphans > 0
  /\ producer = "open"
  /\ pc # "exited"
  /\ orphans' = orphans - 1
  /\ delivered' = delivered + 1
  /\ UNCHANGED << cfgVars, genVars, pc, event_count, event, future, wait_time,
                  producer, pending, ret, exit_status, obsVars >>

\* a send the loop no longer waits for fails for good
OrphanNack ==
  /\ orphans > 0
  /\ producer = "open"
  /\ pc # "exited"
  /\ orphans' = orphans - 1
  /\ UNCHANGED << cfgVars, genVars, pc, event_count, event, future, wait_time,
                  producer, pending, ret, exit_status, delivered, obsVars >>

ProgramStep ==
  \/ Validate \/ CreateProducer \/ MainExcept \/ MainReturn \/ Exit
  \/ StartLoop \/ CheckMax \/ Generate \/ Send \/ FutureGet \/ Count \/ Sleep
  \/ ExceptKbi \/ ExceptExc \/ FlushCall \/ FlushReturn \/ FlushRaise \/ Close

Next ==
  \/ Validate \/ CreateProducer \/ MainExcept \/ MainReturn \/ Exit
  \/ StartLoop \/ CheckMax \/ Generate \/ Send \/ FutureGet \/ Count \/ Sleep
  \/ ExceptKbi \/ ExceptExc \/ FlushCall \/ FlushReturn \/ FlushRaise \/ Close
  \/ Interrupt \/ BrokerAck \/ BrokerNack \/ OrphanAck \/ OrphanNack

Spec == Init /\ [][Next]_vars

\* the interpreter keeps running the main thread
FairSpec == Init /\ [][Next]_vars /\ WF_vars(ProgramStep)

TypeOK ==
  /\ pc \in {"validate", "create", "start", "main_except", "return0", "exit",
             "exited"} \cup TryPcs \cup HandlerPcs \cup FinallyPcs
  /\ future \in {"none", "pending", "ok", "err"}
  /\ producer \in {"none", "open", "closed"}
  /\ event_count \in 0 .. MaxSubmit
  /\ orphans \in 0 .. MaxSubmit

(* ---- claims ---- *)

exited == pc = "exited"
noSignal == sigPcs = << >>
sigInRunning == Len(sigPcs) = 1 /\ sigPcs[1] = "RUNNING"

\* the run of claim C1: a positive limit, accepted arguments, a producer that
\* was constructed, no SIGINT, and no call into the Delivery Channel failed
C1_Case ==
  /\ Len(max_events) = 1 /\ max_events[1] > 0
  /\ ArgsValid(rate_min, rate_max)
  /\ noSignal
  /\ failed = 0
  /\ errors = {}

\* C1: with max_events = N > 0, no cancellation and a Delivery Channel that
\* always succeeds, the run ends, after exactly N submissions, N successful
\* sends and N observability records, with event_count = N, one flush and one
\* close, the producer closed.
C1_Thm ==
  <>( \/ ~C1_Case
      \/ /\ exited
         /\ event_count = max_events[1]
         /\ submitted = max_events[1]
         /\ generated = max_events[1]
         /\ records = max_events[1]
         /\ flushCalls = 1 /\ closeCalls = 1
         /\ producer = "closed" )

C1_Witness ==
  /\ C1_Case /\ exited /\ max_events[1] >= 2
  /\ event_count = max_events[1] /\ producer = "closed"

\* C2: after a single SIGINT that arrived while the loop was running, the
\* process ends with the producer closed, flush() invoked exactly once and
\* close() invoked exactly once.
C2_Claim ==
  (exited /\ sigInRunning) =>
     (flushCalls = 1 /\ closeCalls = 1 /\ producer = "closed")

\* C3: the count the KeyboardInterrupt handler reports equals the number of
\* sends that had resolved successfully when the signal arrived.
C3_Claim ==
  (reported # 0 - 1 /\ sigInRunning) => reported = deliveredAtSignal

\* C4: a step that ends a send in a delivery error (KafkaError, timeout of the
\* wait included) leaves event_count unchanged and takes the loop to the
\* pacing delay, and the pacing delay, unless SIGINT arrives, leads to the
\* next iteration; no flush or close follows from the error.
C4_Thm ==
  [][ /\ (failed' # failed =>
             /\ event_count' = event_count
             /\ pc' = "sleep"
             /\ flushCalls' = flushCalls /\ closeCalls' = closeCalls
             /\ producer' = "open")
      /\ ((pc = "sleep" /\ pc' # "sleep" /\ sigPcs' = sigPcs) => pc' = "top")
    ]_vars

\* a timed-out wait was followed by the pacing delay and the next iteration
C4_Witness ==
  /\ failed > 0 /\ orphans > 0 /\ sleeps > 0
  /\ pc = "generate" /\ event_count = 0 /\ noSignal

\* C5: with a negative rate bound or rate_min > rate_max the producer is never
\* constructed and nothing is generated or sent; with 0 <= rate_min <=
\* rate_max the loop is entered, unless the constructor failed or SIGINT came
\* before the loop.
C5_Thm ==
  /\ (rate_min < 0 \/ rate_max < 0 \/ rate_min > rate_max) =>
        /\ ctorCalls = 0 /\ producer = "none"
        /\ generated = 0 /\ submitted = 0
        /\ ~loopEntered
        /\ pc \in {"validate", "exit", "exited"}
  /\ (/\ 0 <= rate_min /\ rate_min <= rate_max
      /\ exited /\ "ctor" \notin errors
      /\ (noSignal \/ sigPcs[1] # "INIT")) =>
        (producer # "none" /\ loopEntered)

C5_Witness ==
  /\ exited /\ rate_min > rate_max /\ rate_max >= 0 /\ noSignal

\* C6: when validation rejects the arguments the exit status is not 0.
C6_Claim ==
  (exited /\ ~ArgsValid(rate_min, rate_max) /\ noSignal) => exit_status # 0

\* C7: for accepted arguments, the exit status is 1 whenever the constructor
\* failed or an unrecoverable error occurred in the loop, and it is 0 only
\* when the loop stopped at max_events or on a cancellation.
C7_Claim ==
  (exited /\ ArgsValid(rate_min, rate_max)) =>
     /\ (noSignal /\ ("ctor" \in errors \/ "fatal" \in errors)) =>
          exit_status = 1
     /\ exit_status = 0 =>
          (errors = {} /\ (stoppedByMax \/ sigInRunning))

\* C8: when flush() fails, close() is still invoked and the error reaches the
\* caller (exit status 1); when close() fails the error reaches the caller.
C8_Claim ==
  (exited /\ noSignal) =>
     /\ "flush" \in errors => (closeCalls = 1 /\ exit_status = 1)
     /\ "close" \in errors => exit_status = 1

\* C9: for a set max_events, 0 included, an iteration that begins with
\* event_count >= max_events generates and sends nothing.
C9_Claim ==
  (Len(max_events) = 1 /\ pc \in {"generate", "send", "wait"}) =>
     event_count < max_events[1]

\* C10: with max_events = N > 0 the broker never receives more than N events.
C10_Claim ==
  (Len(max_events) = 1 /\ max_events[1] > 0) => delivered <= max_events[1]

\* C11 as stated: at most one send is unresolved at any time.
C11_Claim == inflight <= 1

\* C11: the loop leaves the wait of line 92 only when the send has resolved or
\* the wait has timed out, so an unresolved awaited send exists only during the
\* wait, and the unresolved sends never number more than 1 + the waits that
\* timed out.
C11_Thm ==
  /\ future = "pending" => pc = "wait"
  /\ inflight <= 1 + timeouts
  /\ orphans <= timeouts + Len(sigPcs)

\* a second send is submitted while the first, whose wait timed out, is
\* still unresolved
C11_Witness ==
  /\ inflight = 2 /\ timeouts = 1 /\ future = "pending" /\ noSignal

\* the moves between the states of the lifecycle; ABORTED is the process
\* ending without a closed producer
LifecycleEdges ==
  { <<"INIT", "RUNNING">>, <<"RUNNING", "DRAINING">>, <<"DRAINING", "CLOSED">>,
    <<"INIT", "ABORTED">>, <<"DRAINING", "ABORTED">> }

\* C12: the lifecycle only moves INIT -> RUNNING -> DRAINING -> CLOSED (or
\* aborts); after a SIGINT or an unrecoverable error nothing more is generated
\* or submitted; close() is called only after the one flush() has returned,
\* with nothing left in flight; nothing is sent once flush() was called.
C12_Thm ==
  [][ /\ (LoopState' # LoopState => <<LoopState, LoopState'>> \in LifecycleEdges)
      /\ ((sigPcs # << >> \/ "fatal" \in errors \/ flushCalls > 0) =>
             (generated' = generated /\ submitted' = submitted))
      /\ (closeCalls' # closeCalls => (flushCalls = 1 /\ pc = "close"))
      /\ ((pc' = "close" /\ pc # "close") => (pc = "flushing" /\ inflight = 0))
      /\ (flushCalls' # flushCalls => (closeCalls = 0 /\ producer = "open"))
    ]_vars

\* SIGINT arrived in the loop after a send, and the producer ended closed
C12_Witness ==
  /\ exited /\ sigInRunning /\ submitted > 0 /\ producer = "closed"
  /\ flushCalls = 1 /\ closeCalls = 1

\* C13: on every way out of the loop (max_events reached, cancellation,
\* unrecoverable error, failure of flush or close) the count produced so far
\* has been reported.
C13_Claim ==
  (/\ loopEntered
   /\ pc \in FinallyPcs \cup {"return0", "main_except", "exit", "exited"}
   /\ (noSignal \/ sigInRunning)) =>
     reported = event_count

\* C14: every submission carries an event newer than every event submitted
\* before, and every call of generate_event yields a new event: no event is
\* submitted twice, also not after a failed or timed-out send.
C14_Thm ==
  [][ /\ (submitted' # submitted => (event > lastSent /\ lastSent' = event))
      /\ (generated' # generated => (event' > event /\ event' > lastSent))
    ]_vars

\* a send was submitted after an earlier send had failed
C14_Witness ==
  /\ failed > 0 /\ submitted >= 2 /\ pc = "wait" /\ lastSent = event
  /\ future = "pending"

\* the run of claim C15: a positive limit, accepted arguments, no SIGINT, and
\* a Delivery Channel of which only sends fail
C15_Case ==
  /\ Len(max_events) = 1 /\ max_events[1] > 0
  /\ ArgsValid(rate_min, rate_max)
  /\ noSignal
  /\ errors = {}

\* the model generates no more than MaxSubmit events
C15_CapReached == pc = "generate" /\ generated = MaxSubmit

\* C15: with max_events = N > 0, sends that may fail and no cancellation, the
\* loop stops on its own only with event_count = N, after N observed successes
\* and one more event handed to send for every failure; while fewer than N
\* sends have succeeded (so also when every send fails) it stays in the loop;
\* and it does end, closed, with event_count = N, unless failures go on
\* beyond the events the model generates.
C15_Thm ==
  /\ []((C15_Case /\ stoppedByMax) =>
          /\ event_count = max_events[1]
          /\ observed = max_events[1]
          /\ generated = max_events[1] + failed)
  /\ []((C15_Case /\ event_count < max_events[1]) =>
          (~stoppedByMax /\ LoopState \in {"INIT", "RUNNING"}))
  /\ <>( \/ ~C15_Case
         \/ C15_CapReached
         \/ /\ exited /\ producer = "closed"
            /\ event_count = max_events[1]
            /\ generated = max_events[1] + failed )

\* a run with a failed send that ended closed at the limit
C15_Witness ==
  /\ C15_Case /\ exited /\ producer = "closed" /\ failed > 0
  /\ event_count = max_events[1] /\ generated = max_events[1] + failed

\* C16: every event generate_event returns, and every event handed to send,
\* has event_type view, add_to_cart or purchase and an amount of 1000 to 10000
\* cents.
C16_Thm ==
  \A e \in {ev, sent} :
     e # NoEvent =>
        /\ e.event_type \in {"view", "add_to_cart", "purchase"}
        /\ e.amount \in 1000 .. 10000

\* the largest amount, rounded up from below 100, was handed to send
C16_Witness ==
  /\ sent # NoEvent /\ sent.amount = 10000 /\ sent.event_type = "purchase"
  /\ ev # sent

\* C17: outside the step from line 92 to line 94, event_count equals the
\* number of waits that returned a successful resolution, is at most the
\* number of sends submitted and at most a positive max_events.
C17_Claim ==
  pc # "count" =>
     /\ event_count = observed
     /\ event_count <= submitted
     /\ (Len(max_events) = 1 /\ max_events[1] > 0) => event_count <= max_events[1]

\* C18: a pacing delay follows every send attempt, successful or failed, and
\* the max_events test comes after it: at the top of the loop, and when the
\* loop stops at max_events, the delays number the successes plus the
\* failures; during a delay one attempt is still to be followed by its delay.
C18_Thm ==
  /\ (pc = "top" \/ stoppedByMax) => sleeps = event_count + failed
  /\ pc = "sleep" => event_count + failed = sleeps + 1
  /\ pc \in {"generate", "send", "wait", "count"} => sleeps = event_count + failed

\* the loop stopped at max_events after successes and a failure
C18_Witness ==
  /\ stoppedByMax /\ noSignal /\ failed > 0 /\ event_count > 0
  /\ event_count = max_events[1]
  /\ sleeps = event_count + failed

\* C19: flush() and close() are invoked only on a producer that was
\* constructed; when the constructor fails, produce_events is not entered,
\* nothing is sent, flushed or closed, and the process exits with status 1
\* (unless SIGINT kills it first).
C19_Thm ==
  /\ (flushCalls > 0 \/ closeCalls > 0 \/ submitted > 0) => producer # "none"
  /\ "ctor" \in errors =>
        /\ ~loopEntered /\ producer = "none"
        /\ generated = 0 /\ submitted = 0
        /\ flushCalls = 0 /\ closeCalls = 0
        /\ pc \in {"main_except", "exit", "exited"}
        /\ (exited /\ noSignal) => exit_status = 1

\* the constructor failed and the process has exited
C19_Witness ==
  /\ "ctor" \in errors /\ exited /\ noSignal /\ exit_status = 1 /\ ctorCalls = 1
====
